---- MODULE Spec2Model ----
(***************************************************************************)
(* Model of the container execution inspector                              *)
(* (internal/app/master/inspectors/container/container_inspector.go):      *)
(* NewInspector, RunContainer, FinishMonitoring and ShutdownContainer,     *)
(* driven by a single control thread against the container runtime API     *)
(* and the sensor IPC channels, whose outcomes are nondeterministic.       *)
(***************************************************************************)
EXTENDS Integers, Sequences, FiniteSets, TLC

(* ---------------------------- bounds ---------------------------------- *)
\* longest entrypoint / cmd list drawn for the overrides resolver
MaxArgs == 2
\* how many times the caller may invoke ShutdownContainer in one run
MaxShutdowns == 2

(* ------------------------ program constants --------------------------- *)
IpcErrRecvTimeoutStr == "receive time out"
CmdPortDefault == "65501/tcp"
EvtPortDefault == "65502/tcp"

\* the Go nil error
NilErr == "nil"

(* --------------------------- input domains ---------------------------- *)
ImageTokens == {"/bin/app", "--flag"}
OverrideTokens == {"/bin/custom", "-v"}
UserPort == "80/tcp"
PortKeys == {CmdPortDefault, EvtPortDefault, UserPort}

\* errors the runtime API client can return from create / start / inspect
RuntimeErrors == {"no such image", "cannot connect to the Docker daemon"}
\* errors of the IPC channel calls (the timeout is told apart by its text)
IpcErrors == {IpcErrRecvTimeoutStr, "connection closed"}
\* outcomes of StopContainer: the ContainerNotRunning error type or another
StopErrors == {"ContainerNotRunning", "NoSuchContainer"}
RemoveErrors == {"NoSuchContainer"}
LogsErrors == {"logs failed"}
\* errors of the profile generators
AppArmorErrors == {"apparmor: cannot write profile"}
SeccompErrors == {"seccomp: cannot write profile"}

RECURSIVE SeqsUpTo(_, _)
SeqsUpTo(S, n) ==
  IF n = 0 THEN {<<>>}
  ELSE LET shorter == SeqsUpTo(S, n - 1)
       IN shorter \cup {Append(s, t) : s \in shorter, t \in S}

\* a map[dockerapi.Port]struct{} whose entries all carry the same origin
PortSet(keys, origin) == [k \in keys |-> origin]

\* overrides == nil
NilOverrides ==
  [isNil |-> TRUE, Entrypoint |-> <<>>, Cmd |-> <<>>,
   ClearEntrypoint |-> FALSE, ClearCmd |-> FALSE,
   ExposedPorts |-> PortSet({}, "user")]

MkOverrides(ep, cmd, clearEp, clearCmd, ports) ==
  [isNil |-> FALSE, Entrypoint |-> ep, Cmd |-> cmd,
   ClearEntrypoint |-> clearEp, ClearCmd |-> clearCmd,
   ExposedPorts |-> PortSet(ports, "user")]

MkImage(ep, cmd) == [Entrypoint |-> ep, Cmd |-> cmd]

\* inputs of the overrides resolver: every list up to MaxArgs tokens
ResolveOverrides ==
  {NilOverrides} \cup
  {MkOverrides(ep, cmd, ce, cc, {}) :
     ep \in SeqsUpTo(OverrideTokens, MaxArgs),
     cmd \in SeqsUpTo(OverrideTokens, MaxArgs),
     ce \in BOOLEAN, cc \in BOOLEAN}
ResolveImages ==
  {MkImage(ep, cmd) : ep \in SeqsUpTo(ImageTokens, MaxArgs),
                      cmd \in SeqsUpTo(ImageTokens, MaxArgs)}

\* inputs of a whole inspection run
RunImages ==
  {MkImage(<<>>, <<>>), MkImage(<<>>, <<"/bin/app", "--flag">>),
   MkImage(<<"/bin/app">>, <<>>)}
RunOverrides ==
  {NilOverrides} \cup
  {MkOverrides(c[1], <<>>, c[2], c[3], ports) :
     c \in {<< <<>>, FALSE, FALSE >>, << <<>>, TRUE, TRUE >>,
            << <<"/bin/custom">>, FALSE, TRUE >>},
     ports \in SUBSET PortKeys}

\* what InspectContainer can report: no container, no network settings, or
\* a port map whose entries have a first host binding (TRUE) or none (FALSE)
NoContainerInfo ==
  [isNil |-> TRUE, NetworkSettingsNil |-> TRUE, Ports |-> [k \in {} |-> FALSE]]
ContainerInfos ==
  {[isNil |-> FALSE, NetworkSettingsNil |-> TRUE, Ports |-> [k \in {} |-> FALSE]]}
  \cup
  {[isNil |-> FALSE, NetworkSettingsNil |-> FALSE, Ports |-> p] :
     p \in UNION {[S -> BOOLEAN] : S \in SUBSET PortKeys}}

(* ------------------------------ state --------------------------------- *)
VARIABLES
  pc,                \* position of the control thread
  ret,               \* value returned by the last handler that returned
  imageConfig,       \* ImageInspector.ImageInfo.Config (Entrypoint, Cmd)
  overrides,         \* the ContainerOverrides object Inspector.Overrides points to
  overrides0,        \* the overrides as they were handed to NewInspector
  ShowContainerLogs, \* Inspector.ShowContainerLogs
  FatContainerCmd,   \* Inspector.FatContainerCmd
  ContainerID,       \* Inspector.ContainerID ("" until created)
  ContainerInfo,     \* Inspector.ContainerInfo
  containerOptions,  \* the options built by RunContainer (ExposedPorts)
  channels,          \* IPC channels: "none", "open" or "closed"
  calls,             \* external calls of the current handler invocation
  warnings,          \* warnings logged by the current handler invocation
  issued,            \* external calls issued over the whole run, per operation
  ExcludePaths,      \* Inspector.ExcludePaths (the keys of the map)
  IncludePaths,      \* Inspector.IncludePaths (the keys of the map)
  startMonitor,      \* the StartMonitor command RunContainer built and sent
  infoPc,            \* position of the control thread inside OnInfo
  infoArgs,          \* the arguments of OnInfo (imageRef, doDebug)
  cmdReport,         \* the command report of OnInfo (State, OriginalImage)
  stdout,            \* the lines OnInfo has printed
  infoCalls          \* the collaborator calls OnInfo has made

\* the inputs RunContainer only reads and the state of the info command
frameVars == <<ExcludePaths, IncludePaths, infoPc, infoArgs, cmdReport,
               stdout, infoCalls>>

vars == <<pc, ret, imageConfig, overrides, overrides0, ShowContainerLogs,
          FatContainerCmd, ContainerID, ContainerInfo, containerOptions,
          channels, calls, warnings, issued, ExcludePaths, IncludePaths,
          startMonitor, infoPc, infoArgs, cmdReport, stdout, infoCalls>>

Ops == {"CreateContainer", "StartContainer", "InspectContainer",
        "InitContainerChannels", "StartMonitor", "StopMonitor",
        "GetContainerEvt", "ShutdownSensor", "ShutdownContainerChannels",
        "Logs", "StopContainer", "RemoveContainer",
        "apparmor.GenProfile", "seccomp.GenProfile"}

Call(op, res) == [op |-> op, res |-> res]

\* record one external call and its outcome after the calls in log
Record(log, op, res) ==
  /\ calls' = Append(log, Call(op, res))
  /\ issued' = [issued EXCEPT ![op] = @ + 1]

InitWith(ovs, imgs, logFlags) ==
  /\ pc = "new"
  /\ ret = NilErr
  /\ imageConfig \in imgs
  /\ overrides0 \in ovs
  /\ overrides = overrides0
  /\ ShowContainerLogs \in logFlags
  /\ FatContainerCmd = <<>>
  /\ ContainerID = ""
  /\ ContainerInfo = NoContainerInfo
  /\ containerOptions = [ExposedPorts |-> PortSet({}, "user")]
  /\ channels = "none"
  /\ calls = <<>>
  /\ warnings = 0
  /\ issued = [o \in Ops |-> 0]

\* the path names in lexicographic (sorted) order
PathOrder == <<"/etc", "/tmp", "/var/log">>
PathNames == {PathOrder[i] : i \in 1..Len(PathOrder)}

\* no StartMonitor command has been built
NoCommand ==
  [sent |-> FALSE, AppName |-> "", AppArgs |-> <<>>, Excludes |-> <<>>,
   Includes |-> <<>>]

\* the exclude and include path sets handed to NewInspector
PathsIn(sets) ==
  /\ ExcludePaths \in sets
  /\ IncludePaths \in sets
  /\ startMonitor = NoCommand

\* no command report exists
NoReport == [State |-> "none", OriginalImage |-> "", saved |-> 0]

\* the info command is not running
InfoOff ==
  /\ infoPc = "off"
  /\ infoArgs = [imageRef |-> "", doDebug |-> FALSE, cmdReportLocation |-> ""]
  /\ cmdReport = NoReport
  /\ stdout = <<>>
  /\ infoCalls = <<>>

Init == InitWith(RunOverrides, RunImages, BOOLEAN) /\ PathsIn({{}}) /\ InfoOff
InitResolve ==
  InitWith(ResolveOverrides, ResolveImages, {FALSE}) /\ PathsIn({{}}) /\ InfoOff
\* one launch for every pair of exclude and include path sets
InitMonitor ==
  /\ InitWith({MkOverrides(<<>>, <<>>, FALSE, FALSE, {})},
              {MkImage(<<>>, <<"/bin/app", "--flag">>)}, {FALSE})
  /\ PathsIn(SUBSET PathNames)
  /\ InfoOff

(* --------------------------- NewInspector ------------------------------ *)
\* lines 111-120: the entrypoint appended to FatContainerCmd
EntrypointPart(fat, ov, img) ==
  IF ~ov.isNil /\ (Len(ov.Entrypoint) > 0 \/ ov.ClearEntrypoint)
  THEN IF Len(ov.Entrypoint) > 0 THEN fat \o ov.Entrypoint ELSE fat
  ELSE IF Len(img.Entrypoint) > 0 THEN fat \o img.Entrypoint ELSE fat

CmdPartIgnoresClear(fat, ov, img) ==
  IF ~ov.isNil /\ Len(ov.Cmd) > 0
  THEN fat \o ov.Cmd
  ELSE IF Len(img.Cmd) > 0 THEN fat \o img.Cmd ELSE fat

\* lines 122-131: the cmd appended to FatContainerCmd
CmdPart(fat, ov, img) ==
  IF ~ov.isNil /\ (Len(ov.Cmd) > 0 \/ ov.ClearCmd)
  THEN IF Len(ov.Cmd) > 0 THEN fat \o ov.Cmd ELSE fat
  ELSE IF Len(img.Cmd) > 0 THEN fat \o img.Cmd ELSE fat

NewInspector ==
  /\ pc = "new"
  /\ FatContainerCmd' = CmdPart(EntrypointPart(<<>>, overrides, imageConfig),
                                overrides, imageConfig)
  /\ pc' = "idle"
  /\ UNCHANGED <<ret, imageConfig, overrides, overrides0, ShowContainerLogs,
                 ContainerID, ContainerInfo, containerOptions, channels,
                 calls, warnings, issued>>
  /\ UNCHANGED <<startMonitor, frameVars>>

(* ----------------------- collaborators' helpers ----------------------- *)
\* errutils.FailWhen(cond, msg): TRUE when the process is terminated
FailWhen(cond) == cond

\* errutils.WarnOn(err): the number of warnings it logs
WarnOn(err) == IF err # NilErr THEN 1 ELSE 0

\* ipc.ShutdownContainerChannels(): closes the channels if they are open
ShutdownContainerChannels(ch) == IF ch = "open" THEN "closed" ELSE ch

\* the caller runs launch, finish and teardown as a strict sequence
CanCallRunContainer == pc = "idle"
CanCallFinishMonitoring == pc = "rc_ret" /\ ret = NilErr
CanCallShutdownContainer ==
  /\ \/ pc = "fm_ret"
     \/ pc = "rc_ret" /\ ret # NilErr
     \/ pc = "sc_ret"
  /\ issued["ShutdownContainerChannels"] < MaxShutdowns

(* ---------------------------- RunContainer ----------------------------- *)
\* lines 182-185
commsExposedPorts == PortSet({CmdPortDefault, EvtPortDefault}, "reserved")

MergeExposedPortsUserWins(userPorts) ==
  IF Cardinality(DOMAIN userPorts) > 0
  THEN [k \in DOMAIN userPorts \cup DOMAIN commsExposedPorts |->
          IF k \in DOMAIN userPorts THEN userPorts[k] ELSE commsExposedPorts[k]]
  ELSE commsExposedPorts

\* lines 187-200: Config.ExposedPorts
MergeExposedPorts(userPorts) ==
  IF Cardinality(DOMAIN userPorts) > 0
  THEN [k \in DOMAIN userPorts \cup DOMAIN commsExposedPorts |->
          IF k \in DOMAIN commsExposedPorts THEN commsExposedPorts[k]
          ELSE userPorts[k]]
  ELSE commsExposedPorts

\* lines 137-227: build the container options; i.Overrides is dereferenced
\* unguarded, and a non-empty Overrides.ExposedPorts map is the very map
\* that receives the reserved ports
RC_Build ==
  /\ CanCallRunContainer
  /\ calls' = <<>>
  /\ warnings' = 0
  /\ IF overrides.isNil
     THEN /\ pc' = "panic"
          /\ UNCHANGED <<containerOptions, overrides>>
     ELSE /\ pc' = "rc_create"
          /\ containerOptions' =
               [ExposedPorts |-> MergeExposedPorts(overrides.ExposedPorts)]
          /\ overrides' =
               IF Cardinality(DOMAIN overrides.ExposedPorts) > 0
               THEN [overrides EXCEPT
                       !.ExposedPorts = MergeExposedPorts(overrides.ExposedPorts)]
               ELSE overrides
  /\ UNCHANGED <<ret, imageConfig, overrides0, ShowContainerLogs,
                 FatContainerCmd, ContainerID, ContainerInfo, channels, issued>>
  /\ UNCHANGED <<startMonitor, frameVars>>

\* lines 229-235
RC_Create ==
  /\ pc = "rc_create"
  /\ \E res \in {NilErr} \cup RuntimeErrors :
       /\ Record(calls, "CreateContainer", res)
       /\ IF res # NilErr
          THEN /\ ret' = res
               /\ pc' = "rc_ret"
               /\ UNCHANGED ContainerID
          ELSE /\ ContainerID' = "c1"
               /\ pc' = "rc_start"
               /\ UNCHANGED ret
  /\ UNCHANGED <<imageConfig, overrides, overrides0, ShowContainerLogs,
                 FatContainerCmd, ContainerInfo, containerOptions, channels,
                 warnings>>
  /\ UNCHANGED <<startMonitor, frameVars>>

StartNextIgnoresError(res) == "rc_inspect"

\* lines 237-239: where control goes after StartContainer
StartNext(res) == IF res # NilErr THEN "rc_ret" ELSE "rc_inspect"

RC_Start ==
  /\ pc = "rc_start"
  /\ \E res \in {NilErr} \cup RuntimeErrors :
       /\ Record(calls, "StartContainer", res)
       /\ pc' = StartNext(res)
       /\ ret' = IF res # NilErr THEN res ELSE ret
  /\ UNCHANGED <<imageConfig, overrides, overrides0, ShowContainerLogs,
                 FatContainerCmd, ContainerID, ContainerInfo, containerOptions,
                 channels, warnings>>
  /\ UNCHANGED <<startMonitor, frameVars>>

\* lines 241-243
RC_Inspect ==
  /\ pc = "rc_inspect"
  /\ \E res \in {NilErr} \cup RuntimeErrors :
       /\ Record(calls, "InspectContainer", res)
       /\ IF res # NilErr
          THEN /\ ContainerInfo' = NoContainerInfo
               /\ ret' = res
               /\ pc' = "rc_ret"
          ELSE /\ ContainerInfo' \in ContainerInfos
               /\ pc' = "rc_validate"
               /\ UNCHANGED ret
  /\ UNCHANGED <<imageConfig, overrides, overrides0, ShowContainerLogs,
                 FatContainerCmd, ContainerID, containerOptions, channels,
                 warnings>>
  /\ UNCHANGED <<startMonitor, frameVars>>

MissingCommsPortsOffByOne(info) ==
  Cardinality(DOMAIN info.Ports) < Cardinality(DOMAIN commsExposedPorts) - 1

\* line 246: len(NetworkSettings.Ports) < len(commsExposedPorts)
MissingCommsPorts(info) ==
  Cardinality(DOMAIN info.Ports) < Cardinality(DOMAIN commsExposedPorts)

\* lines 245-247
RC_Validate ==
  /\ pc = "rc_validate"
  /\ pc' = IF FailWhen(ContainerInfo.NetworkSettingsNil) THEN "aborted"
           ELSE IF FailWhen(MissingCommsPorts(ContainerInfo)) THEN "aborted"
           ELSE "rc_init"
  /\ UNCHANGED <<ret, imageConfig, overrides, overrides0, ShowContainerLogs,
                 FatContainerCmd, ContainerID, ContainerInfo, containerOptions,
                 channels, calls, warnings, issued>>
  /\ UNCHANGED <<startMonitor, frameVars>>

\* lines 374-378: Ports[port][0] exists
HasFirstBinding(info, port) == port \in DOMAIN info.Ports /\ info.Ports[port]

\* lines 249-251 and 362-383
RC_InitChannels ==
  /\ pc = "rc_init"
  /\ IF ~HasFirstBinding(ContainerInfo, CmdPortDefault)
        \/ ~HasFirstBinding(ContainerInfo, EvtPortDefault)
     THEN /\ pc' = "panic"
          /\ UNCHANGED <<ret, channels, calls, issued>>
     ELSE \E res \in {NilErr} \cup IpcErrors :
            /\ Record(calls, "InitContainerChannels", res)
            /\ IF res # NilErr
               THEN /\ ret' = res
                    /\ pc' = "rc_ret"
                    /\ UNCHANGED channels
               ELSE /\ channels' = "open"
                    /\ pc' = "rc_send"
                    /\ UNCHANGED ret
  /\ UNCHANGED <<imageConfig, overrides, overrides0, ShowContainerLogs,
                 FatContainerCmd, ContainerID, ContainerInfo, containerOptions,
                 warnings>>
  /\ UNCHANGED <<startMonitor, frameVars>>

\* every ordering of the elements of S
Perms(S) ==
  {p \in [1..Cardinality(S) -> S] :
     \A i, j \in 1..Cardinality(S) : i # j => p[i] # p[j]}

pathMapKeysPadded(m) ==
  IF Cardinality(m) = 0 THEN {<<>>}
  ELSE {[i \in 1..Cardinality(m) |-> ""] \o p : p \in Perms(m)}

\* lines 65-76: the slices pathMapKeys can return; the keys are appended in
\* the iteration order of the map, which the language leaves unspecified
pathMapKeys(m) ==
  IF Cardinality(m) = 0 THEN {<<>>} ELSE Perms(m)

\* lines 253-270: FatContainerCmd[0] is read unguarded
RC_SendStartMonitor ==
  /\ pc = "rc_send"
  /\ IF Len(FatContainerCmd) = 0
     THEN /\ pc' = "panic"
          /\ UNCHANGED <<ret, calls, issued, startMonitor>>
     ELSE \E res \in {NilErr} \cup IpcErrors,
             excludes \in pathMapKeys(ExcludePaths),
             includes \in pathMapKeys(IncludePaths) :
            /\ startMonitor' =
                 [sent |-> TRUE,
                  AppName |-> FatContainerCmd[1],
                  AppArgs |-> IF Len(FatContainerCmd) > 1
                              THEN Tail(FatContainerCmd) ELSE <<>>,
                  Excludes |-> IF Cardinality(ExcludePaths) > 0
                               THEN excludes ELSE <<>>,
                  Includes |-> IF Cardinality(IncludePaths) > 0
                               THEN includes ELSE <<>>]
            /\ Record(calls, "StartMonitor", res)
            /\ ret' = res
            /\ pc' = "rc_ret"
  /\ UNCHANGED <<imageConfig, overrides, overrides0, ShowContainerLogs,
                 FatContainerCmd, ContainerID, ContainerInfo, containerOptions,
                 channels, warnings>>
  /\ UNCHANGED frameVars

(* -------------------------- FinishMonitoring --------------------------- *)
FM_SendStopMonitorSkipsWait ==
  /\ CanCallFinishMonitoring
  /\ \E res \in {NilErr} \cup IpcErrors :
       /\ Record(<<>>, "StopMonitor", res)
       /\ warnings' = WarnOn(res)
  /\ pc' = "fm_shutdown"
  /\ UNCHANGED <<ret, imageConfig, overrides, overrides0, ShowContainerLogs,
                 FatContainerCmd, ContainerID, ContainerInfo, containerOptions,
                 channels>>
  /\ UNCHANGED <<startMonitor, frameVars>>

\* lines 335-338
FM_SendStopMonitor ==
  /\ CanCallFinishMonitoring
  /\ \E res \in {NilErr} \cup IpcErrors :
       /\ Record(<<>>, "StopMonitor", res)
       /\ warnings' = WarnOn(res)
  /\ pc' = "fm_evt"
  /\ UNCHANGED <<ret, imageConfig, overrides, overrides0, ShowContainerLogs,
                 FatContainerCmd, ContainerID, ContainerInfo, containerOptions,
                 channels>>
  /\ UNCHANGED <<startMonitor, frameVars>>

IsRecvTimeoutAnyError(err) == err # NilErr

\* line 348: err != nil && err.Error() == IpcErrRecvTimeoutStr
IsRecvTimeout(err) == err # NilErr /\ err = IpcErrRecvTimeoutStr

AfterEvtWaitsAgain(res) ==
  IF IsRecvTimeout(res) THEN "fm_evt_blocked" ELSE "fm_shutdown"

\* lines 348-351: where control goes after the event wait
AfterEvt(res) == IF IsRecvTimeout(res) THEN "fm_ret" ELSE "fm_shutdown"

\* lines 340-355
FM_GetContainerEvt ==
  /\ pc = "fm_evt"
  /\ \E res \in {NilErr} \cup IpcErrors :
       /\ Record(calls, "GetContainerEvt", res)
       /\ pc' = AfterEvt(res)
       /\ warnings' = IF IsRecvTimeout(res) THEN warnings
                      ELSE warnings + WarnOn(res)
  /\ UNCHANGED <<ret, imageConfig, overrides, overrides0, ShowContainerLogs,
                 FatContainerCmd, ContainerID, ContainerInfo, containerOptions,
                 channels>>
  /\ UNCHANGED <<startMonitor, frameVars>>

\* lines 357-360
FM_SendShutdownSensor ==
  /\ pc = "fm_shutdown"
  /\ \E res \in {NilErr} \cup IpcErrors :
       /\ Record(calls, "ShutdownSensor", res)
       /\ warnings' = warnings + WarnOn(res)
  /\ pc' = "fm_ret"
  /\ UNCHANGED <<ret, imageConfig, overrides, overrides0, ShowContainerLogs,
                 FatContainerCmd, ContainerID, ContainerInfo, containerOptions,
                 channels>>
  /\ UNCHANGED <<startMonitor, frameVars>>

(* ------------------------- ShutdownContainer --------------------------- *)
\* lines 303-304 and 385-387
SC_ShutdownChannels ==
  /\ CanCallShutdownContainer
  /\ Record(<<>>, "ShutdownContainerChannels", NilErr)
  /\ warnings' = 0
  /\ channels' = ShutdownContainerChannels(channels)
  /\ pc' = "sc_logs"
  /\ UNCHANGED <<ret, imageConfig, overrides, overrides0, ShowContainerLogs,
                 FatContainerCmd, ContainerID, ContainerInfo, containerOptions>>
  /\ UNCHANGED <<startMonitor, frameVars>>

\* lines 273-300: the Logs call of showContainerLogs; its error is only logged
showContainerLogs ==
  \E res \in {NilErr} \cup LogsErrors : Record(calls, "Logs", res)

\* lines 306-308
SC_ShowLogs ==
  /\ pc = "sc_logs"
  /\ IF ShowContainerLogs
     THEN showContainerLogs
     ELSE UNCHANGED <<calls, issued>>
  /\ pc' = "sc_stop"
  /\ UNCHANGED <<ret, imageConfig, overrides, overrides0, ShowContainerLogs,
                 FatContainerCmd, ContainerID, ContainerInfo, containerOptions,
                 channels, warnings>>
  /\ UNCHANGED <<startMonitor, frameVars>>

AfterStopReturnsOnError(res, showLogs) ==
  IF res = "ContainerNotRunning"
  THEN IF ~showLogs THEN "sc_logs_late" ELSE "sc_remove"
  ELSE IF res # NilErr THEN "sc_ret" ELSE "sc_remove"

AfterStopAlwaysShowsLogs(res, showLogs) ==
  IF res = "ContainerNotRunning" THEN "sc_logs_late" ELSE "sc_remove"

\* lines 312-322: where control goes after StopContainer
AfterStop(res, showLogs) ==
  IF res = "ContainerNotRunning"
  THEN IF ~showLogs THEN "sc_logs_late" ELSE "sc_remove"
  ELSE "sc_remove"

\* lines 310-322
SC_Stop ==
  /\ pc = "sc_stop"
  /\ \E res \in {NilErr} \cup StopErrors :
       /\ Record(calls, "StopContainer", res)
       /\ warnings' = IF res = "ContainerNotRunning" THEN warnings
                      ELSE warnings + WarnOn(res)
       /\ pc' = AfterStop(res, ShowContainerLogs)
  /\ UNCHANGED <<ret, imageConfig, overrides, overrides0, ShowContainerLogs,
                 FatContainerCmd, ContainerID, ContainerInfo, containerOptions,
                 channels>>
  /\ UNCHANGED <<startMonitor, frameVars>>

\* lines 315-318
SC_ShowLogsLate ==
  /\ pc = "sc_logs_late"
  /\ showContainerLogs
  /\ pc' = "sc_remove"
  /\ UNCHANGED <<ret, imageConfig, overrides, overrides0, ShowContainerLogs,
                 FatContainerCmd, ContainerID, ContainerInfo, containerOptions,
                 channels, warnings>>
  /\ UNCHANGED <<startMonitor, frameVars>>

ShutdownContainerResultEscalates(removeErr) == removeErr

\* lines 329-330: the remove error is discarded and nil is returned
ShutdownContainerResult(removeErr) == NilErr

\* lines 324-330
SC_Remove ==
  /\ pc = "sc_remove"
  /\ \E res \in {NilErr} \cup RemoveErrors :
       /\ Record(calls, "RemoveContainer", res)
       /\ ret' = ShutdownContainerResult(res)
  /\ pc' = "sc_ret"
  /\ UNCHANGED <<imageConfig, overrides, overrides0, ShowContainerLogs,
                 FatContainerCmd, ContainerID, ContainerInfo, containerOptions,
                 channels, warnings>>
  /\ UNCHANGED <<startMonitor, frameVars>>

(* ------------------------ ProcessCollectedData ------------------------- *)
\* post-processing follows the teardown
CanCallProcessCollectedData == pc = "sc_ret"

AfterAppArmorIgnoresError(res) == "pcd_seccomp"

\* lines 398-400: where control goes after the AppArmor generator
AfterAppArmor(res) == IF res # NilErr THEN "pcd_ret" ELSE "pcd_seccomp"

\* lines 395-400
PCD_AppArmor ==
  /\ CanCallProcessCollectedData
  /\ \E res \in {NilErr} \cup AppArmorErrors :
       /\ Record(<<>>, "apparmor.GenProfile", res)
       /\ pc' = AfterAppArmor(res)
       /\ ret' = IF res # NilErr THEN res ELSE ret
  /\ warnings' = 0
  /\ UNCHANGED <<imageConfig, overrides, overrides0, ShowContainerLogs,
                 FatContainerCmd, ContainerID, ContainerInfo, containerOptions,
                 channels>>
  /\ UNCHANGED <<startMonitor, frameVars>>

\* line 402
PCD_Seccomp ==
  /\ pc = "pcd_seccomp"
  /\ \E res \in {NilErr} \cup SeccompErrors :
       /\ Record(calls, "seccomp.GenProfile", res)
       /\ ret' = res
  /\ pc' = "pcd_ret"
  /\ UNCHANGED <<imageConfig, overrides, overrides0, ShowContainerLogs,
                 FatContainerCmd, ContainerID, ContainerInfo, containerOptions,
                 channels, warnings>>
  /\ UNCHANGED <<startMonitor, frameVars>>

(* ------------------------------- OnInfo -------------------------------- *)
ImageRefs == {"nginx:latest", "alpine"}
ReportLocations == {"", "slim.report.json"}
\* errors of the image inspector
ImageErrors == {"cannot connect to the Docker daemon", "bad image data"}

\* errutils.FailOn(err): TRUE when the process is terminated
FailOn(err) == err # NilErr

\* the info command is about to run with some arguments
InfoReady ==
  /\ infoPc = "ready"
  /\ infoArgs \in [imageRef : ImageRefs, doDebug : BOOLEAN,
                    cmdReportLocation : ReportLocations]
  /\ cmdReport = NoReport
  /\ stdout = <<>>
  /\ infoCalls = <<>>

inspectorVars ==
  <<pc, ret, imageConfig, overrides, overrides0, ShowContainerLogs,
    FatContainerCmd, ContainerID, ContainerInfo, containerOptions, channels,
    calls, warnings, issued, ExcludePaths, IncludePaths, startMonitor>>

\* lines 27-32
OnInfo_Start ==
  /\ infoPc = "ready"
  /\ cmdReport' = [State |-> "started", OriginalImage |-> infoArgs.imageRef,
                   saved |-> 0]
  /\ stdout' = stdout \o <<"state=started", "info=params">>
  /\ infoPc' = "client"
  /\ UNCHANGED <<infoArgs, infoCalls, inspectorVars>>

\* lines 34-38
OnInfo_Client ==
  /\ infoPc = "client"
  /\ infoCalls' = IF infoArgs.doDebug
                  THEN Append(infoCalls, Call("version.Print", NilErr))
                  ELSE infoCalls
  /\ infoPc' = "new_inspector"
  /\ UNCHANGED <<infoArgs, cmdReport, stdout, inspectorVars>>

\* lines 40-41
OnInfo_NewInspector ==
  /\ infoPc = "new_inspector"
  /\ \E err \in {NilErr} \cup ImageErrors :
       /\ infoCalls' = Append(infoCalls, Call("image.NewInspector", err))
       /\ infoPc' = IF FailOn(err) THEN "aborted" ELSE "no_image"
  /\ UNCHANGED <<infoArgs, cmdReport, stdout, inspectorVars>>

AfterNoImageGoesOn(noImage) == "inspect"

\* lines 43-47: where control goes after the NoImage test
AfterNoImage(noImage) == IF noImage THEN "ret" ELSE "inspect"

\* lines 43-47
OnInfo_NoImage ==
  /\ infoPc = "no_image"
  /\ \E noImage \in BOOLEAN :
       /\ infoCalls' = Append(infoCalls,
                              Call("NoImage", IF noImage THEN "true" ELSE "false"))
       /\ stdout' = IF noImage
                    THEN stdout \o <<"target image not found", "state=exited">>
                    ELSE stdout
       /\ infoPc' = AfterNoImage(noImage)
  /\ UNCHANGED <<infoArgs, cmdReport, inspectorVars>>

\* lines 49-59
OnInfo_Inspect ==
  /\ infoPc = "inspect"
  /\ \E err \in {NilErr} \cup ImageErrors :
       /\ infoCalls' = Append(infoCalls, Call("Inspect", err))
       /\ IF FailOn(err)
          THEN /\ infoPc' = "aborted"
               /\ UNCHANGED stdout
          ELSE /\ infoPc' = "process"
               /\ stdout' = Append(stdout, "info=image")
  /\ UNCHANGED <<infoArgs, cmdReport, inspectorVars>>

\* lines 61-63
OnInfo_Process ==
  /\ infoPc = "process"
  /\ \E err \in {NilErr} \cup ImageErrors :
       /\ infoCalls' = Append(infoCalls, Call("ProcessCollectedData", err))
       /\ infoPc' = IF FailOn(err) THEN "aborted" ELSE "completed"
  /\ UNCHANGED <<infoArgs, cmdReport, stdout, inspectorVars>>

\* lines 65-66
OnInfo_Completed ==
  /\ infoPc = "completed"
  /\ stdout' = Append(stdout, "state=completed")
  /\ cmdReport' = [cmdReport EXCEPT !.State = "completed"]
  /\ infoPc' = "done"
  /\ UNCHANGED <<infoArgs, infoCalls, inspectorVars>>

\* lines 68-71
OnInfo_Done ==
  /\ infoPc = "done"
  /\ stdout' = Append(stdout, "state=done")
  /\ cmdReport' = [cmdReport EXCEPT !.State = "done", !.saved = @ + 1]
  /\ infoCalls' = Append(infoCalls, Call("Save", NilErr))
  /\ infoPc' = "ret"
  /\ UNCHANGED <<infoArgs, inspectorVars>>

InitInfo ==
  /\ InitWith({NilOverrides}, {MkImage(<<>>, <<>>)}, {FALSE})
  /\ PathsIn({{}})
  /\ InfoReady

NextInfo ==
  \/ OnInfo_Start
  \/ OnInfo_Client
  \/ OnInfo_NewInspector
  \/ OnInfo_NoImage
  \/ OnInfo_Inspect
  \/ OnInfo_Process
  \/ OnInfo_Completed
  \/ OnInfo_Done

SpecInfo == InitInfo /\ [][NextInfo]_vars

(* --------------------------- specifications ---------------------------- *)
Next ==
  \/ NewInspector
  \/ RC_Build
  \/ RC_Create
  \/ RC_Start
  \/ RC_Inspect
  \/ RC_Validate
  \/ RC_InitChannels
  \/ RC_SendStartMonitor
  \/ FM_SendStopMonitor
  \/ FM_GetContainerEvt
  \/ FM_SendShutdownSensor
  \/ SC_ShutdownChannels
  \/ SC_ShowLogs
  \/ SC_Stop
  \/ SC_ShowLogsLate
  \/ SC_Remove
  \/ PCD_AppArmor
  \/ PCD_Seccomp

Spec == Init /\ [][Next]_vars

\* the control thread keeps running: every call it makes returns
SpecFair == Init /\ [][Next]_vars /\ WF_vars(Next)

\* the launch alone
NextMonitor ==
  \/ NewInspector
  \/ RC_Build
  \/ RC_Create
  \/ RC_Start
  \/ RC_Inspect
  \/ RC_Validate
  \/ RC_InitChannels
  \/ RC_SendStartMonitor

SpecMonitor == InitMonitor /\ [][NextMonitor]_vars

NextResolve == NewInspector
SpecResolve == InitResolve /\ [][NextResolve]_vars

TypeOK ==
  /\ pc \in {"new", "idle", "rc_create", "rc_start", "rc_inspect",
             "rc_validate", "rc_init", "rc_send", "rc_ret", "fm_evt",
             "fm_shutdown", "fm_ret", "sc_logs", "sc_stop", "sc_logs_late",
             "sc_remove", "sc_ret", "pcd_seccomp", "pcd_ret", "aborted",
             "panic"}
  /\ channels \in {"none", "open", "closed"}
  /\ warnings \in 0..3
  /\ \A o \in Ops : issued[o] \in 0..(2 * MaxShutdowns)

(* ------------------------------ properties ----------------------------- *)
\* the operations of the current invocation, in call order
OpsSeq == [i \in 1..Len(calls) |-> calls[i].op]
CountOp(op) == Cardinality({i \in 1..Len(calls) : calls[i].op = op})
HasCall(op, res) == \E i \in 1..Len(calls) : calls[i] = Call(op, res)
IsPrefix(s, t) == Len(s) <= Len(t) /\ \A i \in 1..Len(s) : s[i] = t[i]

RunContainerStates ==
  {"rc_create", "rc_start", "rc_inspect", "rc_validate", "rc_init",
   "rc_send", "rc_ret", "aborted", "panic"}
ShutdownContainerStates ==
  {"sc_logs", "sc_stop", "sc_logs_late", "sc_remove", "sc_ret"}
ReservedPorts == {CmdPortDefault, EvtPortDefault}

C2_NoContainerLeftRunning ==
  (ContainerID # "" /\ pc \in {"aborted", "panic", "sc_ret"}) =>
    /\ issued["StopContainer"] >= 1
    /\ issued["RemoveContainer"] >= 1

\* C3: a ShutdownContainer invocation calls, in this order, the channel
\* shutdown, the log fetch if ShowContainerLogs is set, StopContainer and
\* RemoveContainer; when it has returned, RemoveContainer was called exactly
\* once and last, for every StopContainer outcome.
C3_ShutdownOrder ==
  LET expected ==
        IF ShowContainerLogs
        THEN {<<"ShutdownContainerChannels", "Logs", "StopContainer",
                "RemoveContainer">>}
        ELSE {<<"ShutdownContainerChannels", "StopContainer",
                "RemoveContainer">>,
              <<"ShutdownContainerChannels", "StopContainer", "Logs",
                "RemoveContainer">>}
  IN /\ pc \in ShutdownContainerStates =>
          \E e \in expected : IsPrefix(OpsSeq, e)
     /\ pc = "sc_ret" =>
          /\ OpsSeq \in expected
          /\ CountOp("RemoveContainer") = 1

C3_Witness ==
  /\ pc = "sc_ret"
  /\ ShowContainerLogs
  /\ HasCall("StopContainer", "NoSuchContainer")
  /\ OpsSeq = <<"ShutdownContainerChannels", "Logs", "StopContainer",
                "RemoveContainer">>

\* C4: ShutdownContainer returns nil for every combination of outcomes of
\* the log fetch, StopContainer and RemoveContainer, and no step of
\* FinishMonitoring or ShutdownContainer terminates the process or changes
\* the run's result: the process only ever dies inside RunContainer.
C4_CleanupNeverEscalates ==
  /\ pc = "sc_ret" => ret = NilErr /\ CountOp("RemoveContainer") = 1
  /\ pc = "fm_ret" => ret = NilErr
  /\ pc \in {"aborted", "panic"} =>
       calls = <<>> \/ calls[1].op = "CreateContainer"

C4_Witness ==
  /\ pc = "sc_ret"
  /\ ret = NilErr
  /\ HasCall("Logs", "logs failed")
  /\ HasCall("StopContainer", "NoSuchContainer")
  /\ HasCall("RemoveContainer", "NoSuchContainer")
  /\ warnings = 1

\* C5 (as stated): when ShutdownContainer has been invoked a second time and
\* has returned, it returned no error and the container was not asked to be
\* removed a second time.
C5_NoSecondRemoval ==
  (pc = "sc_ret" /\ issued["ShutdownContainerChannels"] >= 2) =>
    /\ ret = NilErr
    /\ issued["RemoveContainer"] <= 1

\* C5 (amended): every ShutdownContainer invocation, the second included,
\* returns nil, and each invocation repeats the whole teardown: it invokes
\* the channel shutdown, StopContainer and RemoveContainer once more, so
\* after n invocations RemoveContainer has been requested n times; the
\* channels are never open once a teardown has started.
C5_TeardownRepeats ==
  /\ pc = "sc_ret" =>
       /\ ret = NilErr
       /\ issued["RemoveContainer"] = issued["ShutdownContainerChannels"]
       /\ issued["StopContainer"] = issued["ShutdownContainerChannels"]
  /\ pc \in ShutdownContainerStates => channels # "open"

C5_Witness ==
  /\ pc = "sc_ret"
  /\ issued["ShutdownContainerChannels"] = 2
  /\ issued["RemoveContainer"] = 2
  /\ channels = "closed"
  /\ ret = NilErr

\* the part the documented rule resolves: the override list when it is
\* non-empty or its clear flag is set, otherwise the image default
ResolvedPart(ov, override, clear, default) ==
  IF ~ov.isNil /\ (override # <<>> \/ clear) THEN override ELSE default

\* C6: the FatContainerCmd NewInspector sets is the resolved entrypoint
\* followed by the resolved cmd, each resolved independently by the rule;
\* Entrypoint=["/bin/custom"], Cmd=[], ClearCmd=true over the image
\* Cmd=["/bin/app","--flag"] gives ["/bin/custom"].
C6_ResolvedCmd ==
  pc = "idle" =>
    /\ FatContainerCmd =
         ResolvedPart(overrides0, overrides0.Entrypoint,
                      overrides0.ClearEntrypoint, imageConfig.Entrypoint)
         \o ResolvedPart(overrides0, overrides0.Cmd, overrides0.ClearCmd,
                         imageConfig.Cmd)
    /\ ( /\ ~overrides0.isNil
         /\ overrides0.Entrypoint = <<"/bin/custom">>
         /\ overrides0.Cmd = <<>>
         /\ overrides0.ClearCmd
         /\ imageConfig.Cmd = <<"/bin/app", "--flag">> )
       => FatContainerCmd = <<"/bin/custom">>

C6_Witness ==
  /\ pc = "idle"
  /\ ~overrides0.isNil
  /\ overrides0.Entrypoint = <<"/bin/custom">>
  /\ overrides0.Cmd = <<>>
  /\ overrides0.ClearCmd
  /\ imageConfig.Entrypoint = <<"/bin/app">>
  /\ imageConfig.Cmd = <<"/bin/app", "--flag">>
  /\ FatContainerCmd = <<"/bin/custom">>

\* C7: the exposed-port set passed to CreateContainer has exactly the keys
\* of the user-specified ports and of the two reserved ports, one entry
\* each; the reserved keys carry the reserved binding, also on a collision.
C7_ExposedPorts ==
  issued["CreateContainer"] >= 1 =>
    LET ports == containerOptions.ExposedPorts
        user == DOMAIN overrides0.ExposedPorts
    IN /\ CmdPortDefault \in DOMAIN ports
       /\ EvtPortDefault \in DOMAIN ports
       /\ user \subseteq DOMAIN ports
       /\ Cardinality(DOMAIN ports) = Cardinality(user \cup ReservedPorts)
       /\ \A k \in ReservedPorts : ports[k] = "reserved"
       /\ \A k \in user \ ReservedPorts : ports[k] = "user"

C7_Witness ==
  /\ issued["CreateContainer"] >= 1
  /\ DOMAIN overrides0.ExposedPorts = {CmdPortDefault, UserPort}
  /\ containerOptions.ExposedPorts[CmdPortDefault] = "reserved"
  /\ containerOptions.ExposedPorts[UserPort] = "user"
  /\ DOMAIN containerOptions.ExposedPorts = PortKeys

\* C8: whenever RunContainer is at the step that builds and sends
\* StartMonitor, FatContainerCmd is non-empty.
C8_FatCmdNonEmpty ==
  pc = "rc_send" => Len(FatContainerCmd) > 0

\* the inspected container fails the post-inspect validation
ValidationFails(info) ==
  /\ ~info.isNil
  /\ \/ info.NetworkSettingsNil
     \/ Cardinality(DOMAIN info.Ports) < Cardinality(ReservedPorts)

\* C9: when the inspected container has no network settings or fewer port
\* bindings than reserved ports, the run stops at the validation: channel
\* initialisation is never entered, no channel is opened and no command is
\* sent to, nor event awaited from, the sensor.
C9_NoChannelsWithoutPorts ==
  ValidationFails(ContainerInfo) =>
    /\ pc \in {"rc_validate", "aborted"}
    /\ channels = "none"
    /\ \A o \in {"InitContainerChannels", "StartMonitor", "StopMonitor",
                 "GetContainerEvt", "ShutdownSensor"} : issued[o] = 0

C9_Witness ==
  /\ pc = "aborted"
  /\ ~ContainerInfo.NetworkSettingsNil
  /\ DOMAIN ContainerInfo.Ports = {CmdPortDefault}
  /\ ContainerInfo.Ports[CmdPortDefault]
  /\ issued["InitContainerChannels"] = 0

RunContainerOrder ==
  <<"CreateContainer", "StartContainer", "InspectContainer",
    "InitContainerChannels", "StartMonitor">>

\* C10: RunContainer calls CreateContainer, StartContainer and
\* InspectContainer in this order, each at most once; a call that returns
\* an error is the last call of the invocation, and RunContainer has then
\* returned exactly that error.
C10_LaunchOrder ==
  pc \in RunContainerStates =>
    /\ IsPrefix(OpsSeq, RunContainerOrder)
    /\ \A i \in 1..Len(calls) :
         (i <= 3 /\ calls[i].res # NilErr) =>
           /\ i = Len(calls)
           /\ pc = "rc_ret"
           /\ ret = calls[i].res

C10_Witness ==
  /\ pc = "rc_ret"
  /\ OpsSeq = <<"CreateContainer", "StartContainer", "InspectContainer">>
  /\ calls[3].res = "no such image"
  /\ ret = "no such image"
  /\ issued["InitContainerChannels"] = 0

\* the keys of a path set in sorted order
SortedKeys(m) ==
  LET idx == {i \in 1..Len(PathOrder) : PathOrder[i] \in m}
      nth(k) == CHOOSE i \in idx : Cardinality({j \in idx : j < i}) = k - 1
  IN [k \in 1..Cardinality(idx) |-> PathOrder[nth(k)]]

\* keys lists every element of m exactly once, in some order
IsListingOf(keys, m) ==
  /\ Len(keys) = Cardinality(m)
  /\ {keys[i] : i \in 1..Len(keys)} = m

C12_OverridesUnchanged ==
  overrides = overrides0

\* overrides that request nothing
EmptyOverrides == MkOverrides(<<>>, <<>>, FALSE, FALSE, {})

\* C13: a run given nil overrides resolves the FatContainerCmd that a run
\* given empty overrides resolves, and makes the calls that run makes: as a
\* run with empty overrides always reaches CreateContainer, the run with
\* nil overrides does not die before CreateContainer is called.
C13_NilLikeEmpty ==
  overrides0.isNil =>
    /\ pc # "new" =>
         FatContainerCmd =
           CmdPart(EntrypointPart(<<>>, EmptyOverrides, imageConfig),
                   EmptyOverrides, imageConfig)
    /\ pc = "panic" => issued["CreateContainer"] >= 1

\* C14: when StopContainer reports that the container is not running,
\* ShutdownContainer logs no warning, returns nil, still calls
\* RemoveContainer, and fetches the logs after the stop exactly when they
\* were not fetched before it; no invocation fetches the logs twice.
C14_NotRunningIsInformational ==
  /\ pc \in ShutdownContainerStates => CountOp("Logs") <= 1
  /\ (pc = "sc_ret" /\ HasCall("StopContainer", "ContainerNotRunning")) =>
       /\ warnings = 0
       /\ ret = NilErr
       /\ CountOp("RemoveContainer") = 1
       /\ OpsSeq = IF ShowContainerLogs
                   THEN <<"ShutdownContainerChannels", "Logs",
                          "StopContainer", "RemoveContainer">>
                   ELSE <<"ShutdownContainerChannels", "StopContainer",
                          "Logs", "RemoveContainer">>

C14_Witness ==
  /\ pc = "sc_ret"
  /\ ~ShowContainerLogs
  /\ HasCall("StopContainer", "ContainerNotRunning")
  /\ OpsSeq = <<"ShutdownContainerChannels", "StopContainer", "Logs",
                "RemoveContainer">>
  /\ warnings = 0

\* C15: a run whose launch succeeded always gets through FinishMonitoring
\* and ShutdownContainer, whatever the sensor answers; when the event wait
\* times out FinishMonitoring has returned with the run's result still nil,
\* and the teardown follows and returns nil.
C15_NeverHangs ==
  /\ (pc = "rc_ret" /\ ret = NilErr) ~> (pc = "sc_ret" /\ ret = NilErr)
  /\ (pc = "fm_evt") ~> (pc = "fm_ret" /\ ret = NilErr)
  /\ (pc = "fm_ret" /\ HasCall("GetContainerEvt", IpcErrRecvTimeoutStr))
       ~> (pc = "sc_ret" /\ ret = NilErr)

C15_Witness ==
  /\ pc = "fm_ret"
  /\ ret = NilErr
  /\ calls = <<Call("StopMonitor", IpcErrRecvTimeoutStr),
               Call("GetContainerEvt", IpcErrRecvTimeoutStr)>>

\* the inspected container passes the post-inspect validation
ValidationPasses(info) ==
  /\ ~info.isNil
  /\ ~info.NetworkSettingsNil
  /\ Cardinality(DOMAIN info.Ports) >= Cardinality(ReservedPorts)

\* C16: StartMonitor is sent only after CreateContainer, StartContainer,
\* InspectContainer, the port-binding validation and the channel
\* initialisation have succeeded in this order; RunContainer returns nil
\* only when all of them and the StartMonitor send succeeded, and
\* FinishMonitoring is started only after such a return.
C16_PhasesOrdered ==
  /\ (pc \in RunContainerStates /\ CountOp("StartMonitor") >= 1) =>
       /\ OpsSeq = RunContainerOrder
       /\ \A i \in 1..4 : calls[i].res = NilErr
       /\ ValidationPasses(ContainerInfo)
       /\ channels = "open"
       /\ pc = "rc_ret"
       /\ ret = calls[5].res
  /\ (pc = "rc_ret" /\ ret = NilErr) =>
       /\ OpsSeq = RunContainerOrder
       /\ \A i \in 1..5 : calls[i].res = NilErr
  /\ issued["StopMonitor"] >= 1 =>
       /\ issued["StartMonitor"] = 1
       /\ startMonitor.sent
  /\ pc \in {"fm_evt", "fm_shutdown", "fm_ret"} => ret = NilErr

C16_Witness ==
  /\ pc = "rc_ret"
  /\ OpsSeq = RunContainerOrder
  /\ calls[5].res = "connection closed"
  /\ ret = "connection closed"
  /\ issued["StopMonitor"] = 0

FinishMonitoringStates == {"fm_evt", "fm_shutdown", "fm_ret"}

\* C17: in FinishMonitoring StopMonitor is sent first and once, the event
\* wait follows once, and ShutdownSensor is only ever sent after the event
\* wait has returned.
C17_HandshakeOrdered ==
  pc \in FinishMonitoringStates =>
    /\ Len(calls) >= 1
    /\ IsPrefix(OpsSeq, <<"StopMonitor", "GetContainerEvt", "ShutdownSensor">>)
    /\ pc = "fm_evt" => Len(calls) = 1
    /\ pc = "fm_shutdown" => Len(calls) = 2
    /\ pc = "fm_ret" =>
         /\ CountOp("StopMonitor") = 1
         /\ CountOp("GetContainerEvt") = 1

C17_Witness ==
  /\ pc = "fm_ret"
  /\ OpsSeq = <<"StopMonitor", "GetContainerEvt", "ShutdownSensor">>
  /\ calls[2].res = NilErr

\* C18: ProcessCollectedData calls the AppArmor generator first; when it
\* fails its error is returned and the seccomp generator is not called;
\* otherwise the seccomp generator is called next and its result returned.
C18_GeneratorsInOrder ==
  pc \in {"pcd_seccomp", "pcd_ret"} =>
    /\ Len(calls) >= 1
    /\ IsPrefix(OpsSeq, <<"apparmor.GenProfile", "seccomp.GenProfile">>)
    /\ pc = "pcd_seccomp" => calls = <<Call("apparmor.GenProfile", NilErr)>>
    /\ pc = "pcd_ret" =>
         IF calls[1].res # NilErr
         THEN Len(calls) = 1 /\ ret = calls[1].res
         ELSE Len(calls) = 2 /\ ret = calls[2].res

C18_Witness ==
  /\ pc = "pcd_ret"
  /\ calls = <<Call("apparmor.GenProfile", "apparmor: cannot write profile")>>
  /\ ret = "apparmor: cannot write profile"
  /\ issued["seccomp.GenProfile"] = 0

\* C19: whenever the post-inspect validation has passed and the channels are
\* about to be initialised, the inspected port map holds a first host
\* binding for the reserved command port and one for the reserved event port.
C19_ReservedBindingsPresent ==
  pc = "rc_init" =>
    /\ HasFirstBinding(ContainerInfo, CmdPortDefault)
    /\ HasFirstBinding(ContainerInfo, EvtPortDefault)

\* how far a command report state is along started -> completed -> done
StateRank(state) ==
  CASE state = "none" -> 0
    [] state = "started" -> 1
    [] state = "completed" -> 2
    [] state = "done" -> 3

HasInfoCall(op, res) ==
  \E i \in 1..Len(infoCalls) : infoCalls[i] = Call(op, res)
InfoCalled(op) == \E i \in 1..Len(infoCalls) : infoCalls[i].op = op

\* what holds of the report in every state of OnInfo
ReportSavedOnceWhenDone ==
  /\ cmdReport.saved <= 1
  /\ cmdReport.State \in {"completed", "done"} =>
       /\ HasInfoCall("Inspect", NilErr)
       /\ HasInfoCall("ProcessCollectedData", NilErr)
  /\ cmdReport.saved = 1 <=> cmdReport.State = "done"
  /\ (infoPc = "ret" /\ HasInfoCall("NoImage", "false")) => cmdReport.saved = 1
  /\ (infoPc = "ret" /\ HasInfoCall("NoImage", "true")) =>
       /\ stdout[Len(stdout)] = "state=exited"
       /\ ~InfoCalled("Inspect")
       /\ ~InfoCalled("ProcessCollectedData")
       /\ ~InfoCalled("Save")
       /\ cmdReport.saved = 0
       /\ cmdReport.State = "started"

\* C20: in OnInfo the report state only steps forward along started ->
\* completed -> done; the report is saved once, exactly when it enters
\* state done, after image inspection and processing succeeded; when the
\* image is not found OnInfo returns after printing state=exited, without
\* inspecting, processing or saving.
C20_ReportLifecycle ==
  /\ []ReportSavedOnceWhenDone
  /\ [][ /\ StateRank(cmdReport'.State) >= StateRank(cmdReport.State)
         /\ StateRank(cmdReport'.State) <= StateRank(cmdReport.State) + 1
         /\ cmdReport'.saved # cmdReport.saved => cmdReport'.State = "done" ]_vars

C20_Witness ==
  /\ infoPc = "ret"
  /\ cmdReport.State = "done"
  /\ cmdReport.saved = 1
  /\ stdout[Len(stdout)] = "state=done"
  /\ HasInfoCall("NoImage", "false")

====
